---- MODULE Spec2Model ----
(***************************************************************************)
(* Model of get_content / check_data_url of src/utils/utils.py.            *)
(* Strings are sequences of one-character strings, byte strings are        *)
(* sequences of integers 0..255.                                           *)
(***************************************************************************)
EXTENDS Integers, Sequences, FiniteSets, TLC

VARIABLES url, kind, pc, data, session, getCount, openSessions, resp,
          transfer, cancelled, outcome, calls

vars == <<url, kind, pc, data, session, getCount, openSessions, resp,
          transfer, cancelled, outcome, calls>>

(* ------------------------------ bounds --------------------------------- *)
\* longest byte string that is encoded into a data URI
MaxBytes == 2
\* number of get_content calls made one after the other
MaxCalls == 2

(* --------------------------- string helpers ---------------------------- *)
Lower == {"a","b","c","d","e","f","g","h","i","j","k","l","m",
          "n","o","p","q","r","s","t","u","v","w","x","y","z"}
Upper == {"A","B","C","D","E","F","G","H","I","J","K","L","M",
          "N","O","P","Q","R","S","T","U","V","W","X","Y","Z"}
Digit == {"0","1","2","3","4","5","6","7","8","9"}

\* the character "\n", the one character the regex '.' does not match
NL == "\n"

\* s[i..] starts with p
StartsAt(s, i, p) ==
    /\ i + Len(p) - 1 <= Len(s)
    /\ \A k \in 1..Len(p) : s[i + k - 1] = p[k]

\* Python's `sub in s` for strings
Contains(sub, s) ==
    \E i \in 1..(Len(s) - Len(sub) + 1) : StartsAt(s, i, sub)

\* index after the longest run of characters of class cls starting at i
RECURSIVE RunEnd(_, _, _)
RunEnd(s, i, cls) ==
    IF i <= Len(s) /\ s[i] \in cls THEN RunEnd(s, i + 1, cls) ELSE i

\* index of the first character at or after i that '.' does not match
RECURSIVE DotEnd(_, _)
DotEnd(s, i) ==
    IF i <= Len(s) /\ s[i] # NL THEN DotEnd(s, i + 1) ELSE i

Slice(s, i, j) == SubSeq(s, i, j - 1)

S_data    == <<"d","a","t","a",":">>
S_charset == <<";","c","h","a","r","s","e","t","=">>
S_base64  == <<";","b","a","s","e","6","4">>
S_b64word == <<"b","a","s","e","6","4">>
S_image   == <<"i","m","a","g","e">>
S_comma   == <<",">>

(* ----------------- the regex of check_data_url (line 66) --------------- *)
\* [\w\/\+-]
MimeClass == Lower \cup Upper \cup Digit \cup {"_", "/", "+", "-"}
\* [\w-]
CharsetClass == Lower \cup Upper \cup Digit \cup {"_", "-"}

NoGroup == [present |-> FALSE, s |-> <<>>]
Group(s) == [present |-> TRUE, s |-> s]

\* re.match(r"^data:([\w\/\+-]*)(;charset=[\w-]+)?(;base64)?,(.*)", url).
\* Every class run is followed by a character outside its class, so the greedy
\* choice is the only one that can match and backtracking changes nothing.
DataUrlMatch(u) ==
    IF ~StartsAt(u, 1, S_data) THEN [matched |-> FALSE, g1 |-> NoGroup,
                                     g2 |-> NoGroup, g3 |-> NoGroup, g4 |-> NoGroup]
    ELSE
    LET a  == Len(S_data) + 1
        i  == RunEnd(u, a, MimeClass)
        cs == i + Len(S_charset)
        je == RunEnd(u, cs, CharsetClass)
        hasCs == StartsAt(u, i, S_charset) /\ je > cs
        j  == IF hasCs THEN je ELSE i
        hasB == StartsAt(u, j, S_base64)
        k  == IF hasB THEN j + Len(S_base64) ELSE j
        e  == DotEnd(u, k + 1)
    IN IF StartsAt(u, k, S_comma)
       THEN [matched |-> TRUE,
             g1 |-> Group(Slice(u, a, i)),
             g2 |-> IF hasCs THEN Group(Slice(u, i, j)) ELSE NoGroup,
             g3 |-> IF hasB THEN Group(S_base64) ELSE NoGroup,
             g4 |-> Group(Slice(u, k + 1, e))]
       ELSE [matched |-> FALSE, g1 |-> NoGroup,
             g2 |-> NoGroup, g3 |-> NoGroup, g4 |-> NoGroup]

(* --------------------- base64.b64decode (line 78) ---------------------- *)
B64Alphabet ==
    <<"A","B","C","D","E","F","G","H","I","J","K","L","M",
      "N","O","P","Q","R","S","T","U","V","W","X","Y","Z",
      "a","b","c","d","e","f","g","h","i","j","k","l","m",
      "n","o","p","q","r","s","t","u","v","w","x","y","z",
      "0","1","2","3","4","5","6","7","8","9","+","/">>
B64Chars == {B64Alphabet[i] : i \in 1..Len(B64Alphabet)}
B64Index(c) == (CHOOSE i \in 1..Len(B64Alphabet) : B64Alphabet[i] = c) - 1
B64Pad == "="

DecOk(bytes) == [ok |-> TRUE, v |-> bytes]
DecErr == [ok |-> FALSE, v |-> <<>>]

\* binascii.a2b_base64 in its default, non-strict mode: characters outside the
\* alphabet are skipped, a completed pad sequence ends the parse, and leftover
\* characters of an unfinished quad raise binascii.Error.
RECURSIVE a2b_base64(_, _, _, _, _, _)
a2b_base64(s, i, quad, left, pads, out) ==
    IF i > Len(s) THEN (IF quad # 0 THEN DecErr ELSE DecOk(out))
    ELSE LET c == s[i] IN
      IF c = B64Pad THEN
          IF quad >= 2 /\ quad + pads + 1 >= 4 THEN DecOk(out)
          ELSE a2b_base64(s, i + 1, quad, left,
                          IF quad >= 2 THEN pads + 1 ELSE pads, out)
      ELSE IF c \notin B64Chars THEN a2b_base64(s, i + 1, quad, left, pads, out)
      ELSE LET v == B64Index(c) IN
        CASE quad = 0 -> a2b_base64(s, i + 1, 1, v, 0, out)
          [] quad = 1 -> a2b_base64(s, i + 1, 2, v % 16, 0,
                                    Append(out, left * 4 + (v \div 16)))
          [] quad = 2 -> a2b_base64(s, i + 1, 3, v % 4, 0,
                                    Append(out, left * 16 + (v \div 4)))
          [] OTHER    -> a2b_base64(s, i + 1, 0, 0, 0,
                                    Append(out, left * 64 + v))

b64decode(s) == a2b_base64(s, 1, 0, 0, 0, <<>>)

(* ----------------------------- values ---------------------------------- *)
NoVal == [ty |-> "none", v |-> <<>>]
BytesVal(b) == [ty |-> "bytes", v |-> b]
StrVal(s) == [ty |-> "str", v |-> s]

MsgInvalidUrl == "The URL provided is invalid."
MsgTimeout    == "Couldn't connect to URL. (Timeout)"
MsgConnect    == "Couldn't connect to URL."
MsgNoImage    == "The URL doesn't contain any image."
MsgDataImage  == "Only images are supported with data URLs."
MsgBadStatus  == "The URL leads to an error"

\* an exception built by a raise statement of utils.py
Raised(cls, msg, status) == [cls |-> cls, msg |-> msg, status |-> status, raw |-> FALSE]
\* an exception raised inside a library call and left to propagate
LibExc(cls) == [cls |-> cls, msg |-> "", status |-> 0, raw |-> TRUE]
NoExc == [cls |-> "", msg |-> "", status |-> 0, raw |-> FALSE]

NoOutcome == [t |-> "none", exc |-> NoExc, val |-> NoVal]
Return(val) == [t |-> "return", exc |-> NoExc, val |-> val]
Raise(e) == [t |-> "raise", exc |-> e, val |-> NoVal]

(* ------------------------ check_data_url (61-81) ----------------------- *)
\* what check_data_url hands back: None, a value, or an exception
CduNone == [t |-> "None", exc |-> NoExc, val |-> NoVal]
CduVal(val) == [t |-> "value", exc |-> NoExc, val |-> val]
CduRaise(e) == [t |-> "raise", exc |-> e, val |-> NoVal]

\* `"image" not in mime_type` (line 74)
MimeIsImage(mime) == Contains(S_image, mime)

\* `"base64" in encoding` (line 77): encoding is groups[2], None when the
\* optional group did not take part in the match, and `in None` is a TypeError
EncodingTest(g3) ==
    IF ~g3.present THEN "TypeError"
    ELSE IF Contains(S_b64word, g3.s) THEN "yes" ELSE "no"

\* the encoding test moved in front of the media type test
DecodeGroupsEncodingFirst(m) ==
    LET enc == EncodingTest(m.g3) IN
    IF enc = "TypeError" THEN CduRaise(LibExc("TypeError"))
    ELSE IF ~MimeIsImage(m.g1.s)
    THEN CduRaise(Raised("ValueError", MsgDataImage, 0))
    ELSE IF enc = "yes" THEN
        LET d == b64decode(m.g4.s) IN
        IF d.ok THEN CduVal(BytesVal(d.v))
        ELSE CduRaise(LibExc("binascii.Error"))
    ELSE CduVal(StrVal(m.g4.s))

\* lines 70-81, run on a successful match m
DecodeGroups(m) ==
    IF ~MimeIsImage(m.g1.s)
    THEN CduRaise(Raised("ValueError", MsgDataImage, 0))
    ELSE LET enc == EncodingTest(m.g3) IN
      CASE enc = "TypeError" -> CduRaise(LibExc("TypeError"))
        [] enc = "yes" ->
             LET d == b64decode(m.g4.s) IN
             IF d.ok THEN CduVal(BytesVal(d.v))
             ELSE CduRaise(LibExc("binascii.Error"))
        [] OTHER -> CduVal(StrVal(m.g4.s))

check_data_url(u) ==
    LET m == DataUrlMatch(u) IN
    IF ~m.matched THEN CduNone ELSE DecodeGroups(m)

\* `if data:` (line 29): None, b"" and "" are all falsy
Truthy(d) == d.t = "value" /\ Len(d.val.v) > 0

(* --------------------------- the HTTP client --------------------------- *)
HTTP_OK == 200
Statuses == {HTTP_OK, 204, 404, 500}

S_ctImage == <<"i","m","a","g","e","/","p","n","g">>
S_ctText  == <<"t","e","x","t","/","p","l","a","i","n">>
S_ctJson  == <<"a","p","p","l","i","c","a","t","i","o","n","/","j","s","o","n">>
ContentTypes == {S_ctImage, S_ctText, S_ctJson}

\* b"{}", b"{", b"42", and two bytes of a PNG signature
Bodies == {<<123, 125>>, <<123>>, <<52, 50>>, <<137, 80>>}

NoResp == [status |-> 0, hasCtype |-> FALSE, ctype |-> <<>>, body |-> <<>>]
Responses ==
    [status : Statuses, hasCtype : {TRUE}, ctype : ContentTypes, body : Bodies]
    \cup [status : Statuses, hasCtype : {FALSE}, ctype : {<<>>}, body : Bodies]

\* base classes of the exceptions that can reach the except clauses
Bases(cls) ==
    CASE cls = "InvalidURL" -> {"InvalidURL", "ClientError", "ValueError"}
      [] cls = "TimeoutError" -> {"TimeoutError"}
      [] cls = "ServerTimeoutError" ->
           {"ServerTimeoutError", "ServerConnectionError",
            "ClientConnectionError", "ClientError", "TimeoutError"}
      [] cls = "ClientConnectorError" ->
           {"ClientConnectorError", "ClientOSError",
            "ClientConnectionError", "ClientError"}
      [] cls = "ServerDisconnectedError" ->
           {"ServerDisconnectedError", "ServerConnectionError",
            "ClientConnectionError", "ClientError"}
      [] cls = "TooManyRedirects" ->
           {"TooManyRedirects", "ClientResponseError", "ClientError"}
      [] cls = "ContentTypeError" ->
           {"ContentTypeError", "ClientResponseError", "ClientError"}
      [] cls = "ClientPayloadError" -> {"ClientPayloadError", "ClientError"}
      [] cls = "JSONDecodeError" -> {"JSONDecodeError", "ValueError"}
      [] cls = "KeyError" -> {"KeyError", "LookupError"}
      [] OTHER -> {cls}

\* what session.get can raise before a response is there
ConnectErrors == {"InvalidURL", "TimeoutError", "ServerTimeoutError",
                  "ClientConnectorError", "TooManyRedirects"}
\* what reading the body can raise
ReadErrors == {"TimeoutError", "ServerTimeoutError",
               "ServerDisconnectedError", "ClientPayloadError"}

\* the except clauses of lines 53-58, in order
Handlers == << [cls |-> "InvalidURL", msg |-> MsgInvalidUrl],
               [cls |-> "TimeoutError", msg |-> MsgTimeout],
               [cls |-> "ClientConnectionError", msg |-> MsgConnect] >>

\* the exception that leaves the try statement when e is raised inside it
Except(e) ==
    LET hit == {i \in 1..Len(Handlers) : Handlers[i].cls \in Bases(e.cls)} IN
    IF hit = {} THEN e
    ELSE LET first == CHOOSE i \in hit : \A j \in hit : i <= j
         IN Raised("ValueError", Handlers[first].msg, 0)

\* a session closed by a call of close() at the end of the block only, which an
\* exception or a cancellation skips
ExitSessionOnReturnOnly(how) == IF how = "return" THEN "closed" ELSE "open"

\* `async with aiohttp.ClientSession(...) as session` (line 37): __aexit__
\* closes the session however the block is left
ExitSession(how) == "closed"

\* `"image" not in content_type` on the response header (line 47)
HeaderIsImage(ctype) == Contains(S_image, ctype)

\* json.loads on the bodies of the model: {} , [] and unsigned integers
IsDigits(b) == Len(b) > 0 /\ \A i \in 1..Len(b) : b[i] \in 48..57
RECURSIVE DigitsValue(_, _)
DigitsValue(b, n) ==
    IF n = 0 THEN 0 ELSE DigitsValue(b, n - 1) * 10 + (b[n] - 48)
JsonLoads(b) ==
    CASE b = <<123, 125>> -> [ok |-> TRUE, val |-> [ty |-> "json_object", v |-> <<>>]]
      [] b = <<91, 93>> -> [ok |-> TRUE, val |-> [ty |-> "json_array", v |-> <<>>]]
      [] IsDigits(b) /\ (Len(b) = 1 \/ b[1] # 48) ->
           [ok |-> TRUE, val |-> [ty |-> "json_int", v |-> <<DigitsValue(b, Len(b))>>]]
      [] OTHER -> [ok |-> FALSE, val |-> NoVal]

\* r.json(): the body is read, the content type must be a JSON one, the text
\* is parsed
ResponseJson(r) ==
    IF ~(r.hasCtype /\ StartsAt(r.ctype, 1, S_ctJson))
    THEN Raise(LibExc("ContentTypeError"))
    ELSE LET j == JsonLoads(r.body) IN
         IF j.ok THEN Return(j.val) ELSE Raise(LibExc("JSONDecodeError"))

\* the image branch's header test done before the status test
StatusStepKindFirst(r, k) ==
    IF k = "image" /\ ~r.hasCtype THEN [next |-> "raise", exc |-> LibExc("KeyError")]
    ELSE IF k = "image" /\ ~HeaderIsImage(r.ctype)
    THEN [next |-> "raise", exc |-> Raised("ValueError", MsgNoImage, 0)]
    ELSE IF r.status = HTTP_OK THEN [next |-> "read", exc |-> NoExc]
    ELSE [next |-> "raise", exc |-> Raised("BadResponseError", MsgBadStatus, r.status)]

\* the image branch without its content-type test
StatusStepNoImageCheck(r, k) ==
    IF r.status = HTTP_OK THEN [next |-> "read", exc |-> NoExc]
    ELSE [next |-> "raise", exc |-> Raised("BadResponseError", MsgBadStatus, r.status)]

\* lines 40-52 up to the first await: the status check, then the choice by kind
\* "read" stands for suspending in r.json() or r.read()
StatusStep(r, k) ==
    IF r.status = HTTP_OK THEN
        CASE k = "json" -> [next |-> "read", exc |-> NoExc]
          [] k = "bytes" -> [next |-> "read", exc |-> NoExc]
          [] OTHER ->
               IF ~r.hasCtype THEN [next |-> "raise", exc |-> LibExc("KeyError")]
               ELSE IF ~HeaderIsImage(r.ctype)
               THEN [next |-> "raise", exc |-> Raised("ValueError", MsgNoImage, 0)]
               ELSE [next |-> "read", exc |-> NoExc]
    ELSE [next |-> "raise", exc |-> Raised("BadResponseError", MsgBadStatus, r.status)]

\* the value or exception of `await r.json()` / `await r.read()` once the body
\* has arrived (lines 42, 44, 50)
ReadStep(r, k) ==
    IF k = "json" THEN ResponseJson(r) ELSE Return(BytesVal(r.body))

(* ------------------------------ inputs --------------------------------- *)
ByteVals == {65, 255}
RECURSIVE SeqsUpTo(_, _)
SeqsUpTo(S, n) ==
    IF n = 0 THEN {<<>>}
    ELSE LET shorter == SeqsUpTo(S, n - 1) IN
         shorter \cup {Append(s, x) : s \in shorter, x \in S}
ByteSeqs == SeqsUpTo(ByteVals, MaxBytes)

\* standard base64 encoding with padding
RECURSIVE B64Encode(_)
B64Encode(b) ==
    IF Len(b) = 0 THEN <<>>
    ELSE IF Len(b) = 1 THEN
        << B64Alphabet[(b[1] \div 4) + 1], B64Alphabet[(b[1] % 4) * 16 + 1],
           B64Pad, B64Pad >>
    ELSE IF Len(b) = 2 THEN
        << B64Alphabet[(b[1] \div 4) + 1],
           B64Alphabet[(b[1] % 4) * 16 + (b[2] \div 16) + 1],
           B64Alphabet[(b[2] % 16) * 4 + 1], B64Pad >>
    ELSE
        << B64Alphabet[(b[1] \div 4) + 1],
           B64Alphabet[(b[1] % 4) * 16 + (b[2] \div 16) + 1],
           B64Alphabet[(b[2] % 16) * 4 + (b[3] \div 64) + 1],
           B64Alphabet[(b[3] % 64) + 1] >>
        \o B64Encode(SubSeq(b, 4, Len(b)))

\* payloads that are not the encoding of anything
BadPayloads == { <<"Q","U","J","D","!">>, <<"Q","U","J">>, <<"Q">>,
                 <<"Q","Q","=","=","Q","U","J","D">>, <<"!">>,
                 <<"a","b",NL,"c">> }
Payloads == {B64Encode(b) : b \in ByteSeqs} \cup BadPayloads

S_mtPng    == <<"i","m","a","g","e","/","p","n","g">>
S_mtSvg    == <<"x","-","i","m","a","g","e","+","x">>
S_mtText   == <<"t","e","x","t","/","p","l","a","i","n">>
MediaTypes == {S_mtPng, S_mtSvg, S_mtText, <<>>}
ImageMediaTypes == {mt \in MediaTypes : Contains(S_image, mt)}
CharsetSegs == {<<>>, S_charset \o <<"u","t","f","-","8">>}
Base64Segs == {<<>>, S_base64}

DataUri(mt, cs, b64, payload) == S_data \o mt \o cs \o b64 \o S_comma \o payload

DataUris == {DataUri(mt, cs, b64, p) :
               mt \in MediaTypes, cs \in CharsetSegs, b64 \in Base64Segs, p \in Payloads}

\* URLs that do not match the data-URI grammar
OtherUrls == { <<"h","t","t","p",":","/","/","h","/","a">>,
               <<"h","t","t","p",":","/","/">>,
               S_data \o S_mtPng,
               S_data \o S_mtPng \o S_charset \o S_comma \o <<"Q","Q","=","=">>,
               S_data \o S_mtPng \o S_base64 \o S_charset \o <<"a">> \o S_comma,
               <<"x">> \o S_data \o S_mtPng \o S_comma \o <<"a">> }
Urls == DataUris \cup OtherUrls
Kinds == {"json", "bytes", "image"}

(* --------------------------- the state machine ------------------------- *)
\* pc: "start"      get_content entered, check_data_url about to run re.match
\*     "matched"    inside check_data_url, the regex matched (line 70)
\*     "checked"    check_data_url has returned into `data` (line 28)
\*     "connecting" session open, suspended in session.get (line 39)
\*     "connected"  response head received (line 40)
\*     "reading"    suspended in r.json() / r.read() (lines 42, 44, 50)
\*     "done"       the call has returned or raised

Init ==
    /\ url \in Urls
    /\ kind \in Kinds
    /\ pc = "start"
    /\ data = CduNone
    /\ session = "none"
    /\ getCount = 0
    /\ openSessions = 0
    /\ resp = NoResp
    /\ transfer = "none"
    /\ cancelled = FALSE
    /\ outcome = NoOutcome
    /\ calls = 1

\* lines 66-69: re.match; no match returns None to line 28
MatchDataUrl ==
    /\ pc = "start"
    /\ pc' = IF DataUrlMatch(url).matched THEN "matched" ELSE "checked"
    /\ data' = CduNone
    /\ UNCHANGED <<url, kind, session, getCount, openSessions, resp,
                   transfer, cancelled, outcome, calls>>

\* lines 70-81: the rest of check_data_url; an exception leaves get_content too
DecodeDataUrl ==
    /\ pc = "matched"
    /\ LET d == check_data_url(url) IN
       IF d.t = "raise"
       THEN /\ pc' = "done"
            /\ outcome' = Raise(d.exc)
            /\ data' = data
       ELSE /\ pc' = "checked"
            /\ data' = d
            /\ outcome' = outcome
    /\ UNCHANGED <<url, kind, session, getCount, openSessions, resp,
                   transfer, cancelled, calls>>

\* lines 29-30: `if data: return data`
ReturnInline ==
    /\ pc = "checked"
    /\ Truthy(data)
    /\ pc' = "done"
    /\ outcome' = Return(data.val)
    /\ UNCHANGED <<url, kind, data, session, getCount, openSessions, resp,
                   transfer, cancelled, calls>>

\* lines 31-39: the session is created and entered, session.get is awaited
OpenSessionAndGet ==
    /\ pc = "checked"
    /\ ~Truthy(data)
    /\ session' = "open"
    /\ openSessions' = openSessions + 1
    /\ getCount' = getCount + 1
    /\ pc' = "connecting"
    /\ UNCHANGED <<url, kind, data, resp, transfer, cancelled, outcome, calls>>

\* an exception e raised inside the try of lines 38-58: the except clauses,
\* then the exit of the `async with` of line 37
LeaveByException(e) ==
    /\ outcome' = Raise(Except(e))
    /\ session' = ExitSession("raise")
    /\ openSessions' = IF ExitSession("raise") = "closed"
                       THEN openSessions - 1 ELSE openSessions
    /\ pc' = "done"

\* session.get raises (line 39)
ConnectFails ==
    /\ pc = "connecting"
    /\ \E c \in ConnectErrors : LeaveByException(LibExc(c))
    /\ UNCHANGED <<url, kind, data, getCount, resp, transfer, cancelled, calls>>

\* session.get yields the response head (line 39)
ResponseArrives ==
    /\ pc = "connecting"
    /\ resp' \in Responses
    /\ pc' = "connected"
    /\ UNCHANGED <<url, kind, data, session, getCount, openSessions,
                   transfer, cancelled, outcome, calls>>

\* lines 40-52 up to the first await
HandleStatus ==
    /\ pc = "connected"
    /\ LET st == StatusStep(resp, kind) IN
       IF st.next = "raise"
       THEN LeaveByException(st.exc)
       ELSE /\ pc' = "reading"
            /\ UNCHANGED <<outcome, session, openSessions>>
    /\ UNCHANGED <<url, kind, data, getCount, resp, transfer, cancelled, calls>>

\* the body arrives: r.json() / r.read() finish (lines 42, 44, 50)
ReadCompletes ==
    /\ pc = "reading"
    /\ transfer' = "complete"
    /\ LET r == ReadStep(resp, kind) IN
       IF r.t = "raise"
       THEN LeaveByException(r.exc)
       ELSE /\ outcome' = r
            /\ session' = ExitSession("return")
            /\ openSessions' = IF ExitSession("return") = "closed"
                               THEN openSessions - 1 ELSE openSessions
            /\ pc' = "done"
    /\ UNCHANGED <<url, kind, data, getCount, resp, cancelled, calls>>

\* reading the body raises (lines 42, 44, 50)
ReadFails ==
    /\ pc = "reading"
    /\ transfer' = "failed"
    /\ \E c \in ReadErrors : LeaveByException(LibExc(c))
    /\ UNCHANGED <<url, kind, data, getCount, resp, cancelled, calls>>

\* the coroutine is cancelled while suspended at an await (lines 39, 42, 44, 50):
\* CancelledError is raised there, no except clause takes it
Cancel ==
    /\ pc \in {"connecting", "reading"}
    /\ cancelled' = TRUE
    /\ outcome' = Raise(Except(LibExc("CancelledError")))
    /\ session' = ExitSession("cancel")
    /\ openSessions' = IF ExitSession("cancel") = "closed"
                       THEN openSessions - 1 ELSE openSessions
    /\ pc' = "done"
    /\ UNCHANGED <<url, kind, data, getCount, resp, transfer, calls>>

\* the caller makes another call of get_content
NewCall ==
    /\ pc = "done"
    /\ calls < MaxCalls
    /\ calls' = calls + 1
    /\ url' \in Urls
    /\ kind' \in Kinds
    /\ pc' = "start"
    /\ data' = CduNone
    /\ session' = "none"
    /\ getCount' = 0
    /\ resp' = NoResp
    /\ transfer' = "none"
    /\ cancelled' = FALSE
    /\ outcome' = NoOutcome
    /\ UNCHANGED openSessions

Next ==
    \/ MatchDataUrl
    \/ DecodeDataUrl
    \/ ReturnInline
    \/ OpenSessionAndGet
    \/ ConnectFails
    \/ ResponseArrives
    \/ HandleStatus
    \/ ReadCompletes
    \/ ReadFails
    \/ Cancel
    \/ NewCall



(* ------------------------ vocabulary of the claims --------------------- *)
\* the error kind of the taxonomy that an exception leaving get_content is
Classified == {"InvalidInput", "Timeout", "ConnectionFailed", "BadResponse",
               "UnsupportedMediaType", "DecodeError"}
ErrorKind(e) ==
    CASE e.cls = "ValueError" /\ e.msg = MsgInvalidUrl -> "InvalidInput"
      [] e.cls = "ValueError" /\ e.msg = MsgTimeout -> "Timeout"
      [] e.cls = "ValueError" /\ e.msg = MsgConnect -> "ConnectionFailed"
      [] e.cls = "BadResponseError" -> "BadResponse"
      [] e.cls = "ValueError" /\ e.msg \in {MsgNoImage, MsgDataImage} ->
           "UnsupportedMediaType"
      [] e.cls \in {"binascii.Error", "JSONDecodeError"} -> "DecodeError"
      [] OTHER -> "Unclassified"

Returned(val) == outcome.t = "return" /\ outcome.val.ty = val.ty /\ outcome.val.v = val.v
RaisedKind(k) == outcome.t = "raise" /\ ErrorKind(outcome.exc) = k
NoNetwork == session = "none" /\ getCount = 0 /\ resp = NoResp

\* RFC 4648 base64: alphabet characters in quads, padded at the end only
ValidBase64(p) ==
    /\ Len(p) % 4 = 0
    /\ \E n \in 0..2 :
         /\ n <= Len(p)
         /\ \A i \in 1..Len(p) :
              IF i > Len(p) - n THEN p[i] = B64Pad ELSE p[i] \in B64Chars

NonImageMediaTypes == MediaTypes \ ImageMediaTypes
NonImageDataUris == {DataUri(mt, cs, b64, p) :
                       mt \in NonImageMediaTypes, cs \in CharsetSegs,
                       b64 \in Base64Segs, p \in Payloads}

(* ------------------------------- claims -------------------------------- *)
\* C1: a finished call that was not cancelled returned a value only if
\* check_data_url produced a value or the response status was 200, and in every
\* other case it raised an error of one of the classified kinds.
C1_ValueOnlyFromInlineOr200 ==
    (pc = "done" /\ ~cancelled) =>
        LET good == data.t = "value" \/ resp.status = HTTP_OK IN
        /\ outcome.t = "return" => good
        /\ ~good => (outcome.t = "raise" /\ ErrorKind(outcome.exc) \in Classified)

\* C2: for every byte string b and every image media type, the call on
\* data:<mediatype>;base64,<base64(b)> never creates a session or issues a GET,
\* and returns exactly b.
C2_InlineRoundTrip ==
    \A b \in ByteSeqs, mt \in ImageMediaTypes :
        url = DataUri(mt, <<>>, S_base64, B64Encode(b)) =>
            /\ NoNetwork
            /\ pc = "done" => Returned(BytesVal(b))

\* C3: every exception that leaves a call that was not cancelled was built by
\* get_content / check_data_url as one of the classified kinds; none is a
\* library exception left to propagate.
C3_NoRawException ==
    (pc = "done" /\ outcome.t = "raise" /\ ~cancelled) =>
        /\ ~outcome.exc.raw
        /\ ErrorKind(outcome.exc) \in Classified

\* C4: whenever a call has returned or raised, and whenever a call begins, no
\* session is open: the session a call created is closed on every exit path,
\* cancellation included.
C4_SessionClosedOnExit ==
    /\ pc \in {"done", "start"} => (session # "open" /\ openSessions = 0)
    /\ session = "open" <=> pc \in {"connecting", "connected", "reading"}
    /\ (pc = "done" /\ getCount > 0) => session = "closed"

\* C4 witness: a call cancelled while the body was being read has ended with
\* its session closed.
C4_Witness ==
    /\ pc = "done" /\ cancelled /\ resp.status = HTTP_OK
    /\ session = "closed" /\ openSessions = 0

\* C5: a response whose status is not 200 ends the call with BadResponseError
\* carrying that status, for every kind, and nothing of the body is decoded
\* or read for it.
C5_Non200IsBadResponse ==
    /\ pc = "reading" => resp.status = HTTP_OK
    /\ (pc = "done" /\ resp # NoResp /\ resp.status # HTTP_OK) =>
         /\ outcome.t = "raise"
         /\ outcome.exc = Raised("BadResponseError", MsgBadStatus, resp.status)
         /\ transfer = "none"

\* C5 witness: a 404 without content-type header, asked for as an image, has
\* ended in BadResponseError 404.
C5_Witness ==
    /\ pc = "done" /\ kind = "image" /\ resp.status = 404 /\ ~resp.hasCtype
    /\ RaisedKind("BadResponse") /\ outcome.exc.status = 404

C7_NonImageDataUri ==
    url \in NonImageDataUris =>
        /\ pc \in {"start", "matched", "done"}
        /\ NoNetwork
        /\ pc = "done" => /\ outcome.t = "raise"
                          /\ outcome.exc = Raised("ValueError", MsgDataImage, 0)

\* C7 witness: data:;charset=utf-8,Q asked for as json has ended in
\* UnsupportedMediaType with no session created.
C7_Witness ==
    /\ pc = "done" /\ kind = "json"
    /\ url = DataUri(<<>>, S_charset \o <<"u","t","f","-","8">>, <<>>, <<"Q">>)
    /\ RaisedKind("UnsupportedMediaType") /\ outcome.exc.msg = MsgDataImage
    /\ NoNetwork

\* C8: once check_data_url has finished on a data URI with an image media type:
\* with ;base64 and the payload base64(b) it has returned the bytes b; without
\* ;base64 it has returned the payload string as written.
C8_DataUrlPayload ==
    pc \notin {"start", "matched"} =>
        \A mt \in ImageMediaTypes, cs \in CharsetSegs :
            /\ \A b \in ByteSeqs :
                 url = DataUri(mt, cs, S_base64, B64Encode(b)) =>
                     /\ data.t = "value" /\ data.val.ty = "bytes"
                     /\ data.val.v = b
            /\ \A p \in Payloads :
                 url = DataUri(mt, cs, <<>>, p) =>
                     /\ data.t = "value" /\ data.val.ty = "str"
                     /\ data.val.v = p

\* C9: a finished call on a base64 data URI with an image media type whose
\* payload is not valid base64 has ended in DecodeError, without returning
\* bytes and without going to the network.
C9_MalformedBase64Fails ==
    \A mt \in ImageMediaTypes, cs \in CharsetSegs, p \in Payloads :
        (/\ url = DataUri(mt, cs, S_base64, p)
         /\ ~ValidBase64(p)
         /\ pc = "done") =>
            /\ RaisedKind("DecodeError")
            /\ NoNetwork

\* the stage of the per-call state machine a call is in
Phase ==
    CASE pc = "start" -> "Start"
      [] pc = "matched" -> "InlineMatch"
      [] pc = "checked" ->
           IF DataUrlMatch(url).matched THEN "InlineMatch" ELSE "NoInlineMatch"
      [] pc = "connecting" -> "Connecting"
      [] pc = "connected" -> "Connected"
      [] pc = "reading" -> "Decoding"
      [] OTHER -> "Terminal"

PhaseEdges ==
    { <<"Start", "InlineMatch">>, <<"Start", "NoInlineMatch">>,
      <<"InlineMatch", "InlineMatch">>, <<"InlineMatch", "Terminal">>,
      <<"NoInlineMatch", "Connecting">>,
      <<"Connecting", "Connected">>, <<"Connecting", "Terminal">>,
      <<"Connected", "Decoding">>, <<"Connected", "Terminal">>,
      <<"Decoding", "Terminal">> }

\* C10: within one call every step follows an edge of the state machine
\* Start -> (InlineMatch | NoInlineMatch), NoInlineMatch -> Connecting ->
\* (Connected | terminal), Connected -> (Decoding | terminal), Decoding ->
\* terminal, InlineMatch -> terminal; the call has an outcome exactly when it
\* is terminal, a GET is issued exactly on entering Connecting, and nothing
\* follows a terminal outcome within the call.
C10_StateMachine ==
    [][ calls' = calls =>
          /\ <<Phase, Phase'>> \in PhaseEdges
          /\ (outcome'.t # "none") <=> (pc' = "done")
          /\ getCount' = IF Phase' = "Connecting" THEN getCount + 1 ELSE getCount
          /\ getCount' <= 1
      ]_vars

Spec == Init /\ [][Next]_vars

====
